---- MODULE Spec2Model ----
(***************************************************************************)
(* Model of emojify.py: the slash-command parser (parse_command_line),     *)
(* the image normaliser (square_crop_and_resize), the Stage-1 handler      *)
(* (dispatch) and the Stage-2 handler (emojify) with the three directory   *)
(* operations (upload_emoji, delete_emoji, alias_emoji).                   *)
(*                                                                         *)
(* A command text is a sequence of lexemes.  A lexeme is a word that the   *)
(* tokenizer treats as an unbreakable run of ordinary characters, a space  *)
(* or a double quote.  shlex.split and argparse are modelled on these by   *)
(* what they do: quoting groups, adjacency concatenates, "-h" is the help  *)
(* option argparse adds to every parser, "-x" an option no parser knows.   *)
(***************************************************************************)
EXTENDS Integers, Sequences, FiniteSets, TLC

VARIABLES
    mode,        \* which program is running: "parse", "image", "dispatch", "worker"
    \* parse_command_line
    cmdline,     \* the text handed to parse_command_line
    parsed,      \* its outcome, NoResult before the call
    \* square_crop_and_resize
    original,    \* [width, height] of the image passed in
    image,       \* [width, height] of the wand image now
    size,        \* the requested size
    ipc,         \* position in square_crop_and_resize
    crop_box,    \* the arguments of the image.crop call
    \* dispatch
    request,     \* the decoded form body: token, text, response_url
    dpc,         \* position in dispatch
    published,   \* the messages accepted by the SNS topic
    publish_calls, \* number of sns.publish calls made
    response,    \* the HTTP response returned, NoResponse before the return
    \* emojify
    directory,   \* the emoji names the platform holds
    workitem,    \* the delivered SNS message
    wpc,         \* position of each invocation
    session,     \* per invocation: the directory snapshot taken at login
    requests_made, \* per invocation: the requests sent to the platform
    posts,       \* per invocation: the POSTs made to the callback URL
    outcome      \* per invocation: the message text kind it ended with

parse_vars    == <<cmdline, parsed>>
image_vars    == <<original, image, size, ipc, crop_box>>
dispatch_vars == <<request, dpc, published, publish_calls, response>>
worker_vars   == <<directory, workitem, wpc, session, requests_made, posts, outcome>>
vars == <<mode, parse_vars, image_vars, dispatch_vars, worker_vars>>

---------------------------------------------------------------------------
(* Bounds *)

MaxLen == 5        \* lexemes in a command text given to the parser
MaxCmdLen == 4     \* lexemes in the text field of a Stage-1 request
MaxDim == 6        \* image width and height
MaxSize == 3       \* requested size

---------------------------------------------------------------------------
(* Lexemes and texts *)

SP == " "
QT == "\""

Words == {"create", "delete", "alias", "add", "remove", "foo", "bar", "-h", "-x"}

Lexemes == Words \cup {SP, QT}

Texts(n) == UNION {[1..k -> Lexemes] : k \in 0..n}

---------------------------------------------------------------------------
(* shlex.split(cmdline), POSIX mode *)

RECURSIVE Lex(_, _, _, _, _, _)
Lex(text, i, cur, inTok, inQuote, toks) ==
    IF i > Len(text)
    THEN IF inQuote
         THEN [ok |-> FALSE, toks |-> <<>>]          \* ValueError: No closing quotation
         ELSE [ok |-> TRUE, toks |-> IF inTok THEN Append(toks, cur) ELSE toks]
    ELSE LET c == text[i] IN
         IF inQuote
         THEN IF c = QT
              THEN Lex(text, i + 1, cur, TRUE, FALSE, toks)
              ELSE Lex(text, i + 1, Append(cur, c), TRUE, TRUE, toks)
         ELSE IF c = SP
              THEN IF inTok
                   THEN Lex(text, i + 1, <<>>, FALSE, FALSE, Append(toks, cur))
                   ELSE Lex(text, i + 1, <<>>, FALSE, FALSE, toks)
              ELSE IF c = QT
                   THEN Lex(text, i + 1, cur, TRUE, TRUE, toks)
                   ELSE Lex(text, i + 1, Append(cur, c), TRUE, FALSE, toks)

shlex_split(text) == Lex(text, 1, <<>>, FALSE, FALSE, <<>>)

---------------------------------------------------------------------------
(* argparse, as configured by parse_command_line *)

\* The outcome of a call: a Namespace (func = "" when no subcommand set one),
\* a raised exception, or process exit after printing the help text.
Namespace(func, name, arg) ==
    [kind |-> "args", func |-> func, name |-> name, arg |-> arg, exc |-> "", msg |-> ""]

Raised(exc, msg) ==
    [kind |-> "raise", func |-> "", name |-> <<>>, arg |-> <<>>, exc |-> exc, msg |-> msg]

\* The help action: print_help() writes to stdout, then parser.exit() raises SystemExit.
SystemExit ==
    [kind |-> "exit", func |-> "", name |-> <<>>, arg |-> <<>>, exc |-> "SystemExit", msg |-> "help"]

NoResult ==
    [kind |-> "none", func |-> "", name |-> <<>>, arg |-> <<>>, exc |-> "", msg |-> ""]

\* ArgumentParser.error: re-raise the exception being handled (argparse calls
\* error from its "except ArgumentError" block), else raise Exception('Error: ...').
ArgumentParser_error(handling, message) ==
    IF handling # ""
    THEN Raised(handling, message)
    ELSE Raised("Exception", message)

\* How a parser whose only option is -h/--help classifies an argument string.
TokKind(tok) ==
    IF tok = <<>> THEN "A"
    ELSE IF tok[1] = "-h" THEN (IF Len(tok) = 1 THEN "help" ELSE "helperr")
    ELSE IF tok[1] = "-x" THEN (IF \E k \in 1..Len(tok) : tok[k] = SP THEN "A" ELSE "O")
    ELSE "A"

\* subparsers.add_parser(...) / add_argument(...) / set_defaults(func=...)
Subcommands == {"create", "delete", "alias"}

Arity(func) == IF func = "delete" THEN 1 ELSE 2

\* A subparser's _parse_known_args over the arguments after the subcommand.
RECURSIVE SubWalk(_, _, _, _, _)
SubWalk(func, rest, j, pos, extras) ==
    IF j > Len(rest)
    THEN IF Len(pos) < Arity(func)
         THEN [res |-> ArgumentParser_error("", "the following arguments are required"),
               extras |-> extras]
         ELSE [res |-> Namespace(func, pos[1], IF Arity(func) = 2 THEN pos[2] ELSE <<>>),
               extras |-> extras]
    ELSE LET k == TokKind(rest[j]) IN
         IF k = "help" THEN [res |-> SystemExit, extras |-> extras]
         ELSE IF k = "helperr"
         THEN [res |-> ArgumentParser_error("ArgumentError", "ignored explicit argument"),
               extras |-> extras]
         ELSE IF k = "O" THEN SubWalk(func, rest, j + 1, pos, TRUE)
         ELSE IF Len(pos) < Arity(func)
         THEN SubWalk(func, rest, j + 1, Append(pos, rest[j]), extras)
         ELSE SubWalk(func, rest, j + 1, pos, TRUE)

\* parser.parse_args(argv): the top-level parser, whose single positional is
\* the subcommand (not required), then the check for unrecognized arguments.
RECURSIVE parse_args(_, _, _)
parse_args(toks, i, extras) ==
    IF i > Len(toks)
    THEN IF extras
         THEN ArgumentParser_error("", "unrecognized arguments")
         ELSE Namespace("", <<>>, <<>>)
    ELSE LET k == TokKind(toks[i]) IN
         IF k = "help" THEN SystemExit
         ELSE IF k = "helperr"
         THEN ArgumentParser_error("ArgumentError", "ignored explicit argument")
         ELSE IF k = "O" THEN parse_args(toks, i + 1, TRUE)
         ELSE IF Len(toks[i]) # 1 \/ toks[i][1] \notin Subcommands
         THEN ArgumentParser_error("ArgumentError", "invalid choice")
         ELSE LET sub == SubWalk(toks[i][1], SubSeq(toks, i + 1, Len(toks)), 1, <<>>, FALSE) IN
              IF sub.res.kind # "args" THEN sub.res
              ELSE IF extras \/ sub.extras
              THEN ArgumentParser_error("", "unrecognized arguments")
              ELSE sub.res

parse_command_line(text) ==
    LET s == shlex_split(text) IN
    IF ~s.ok
    THEN Raised("ValueError", "No closing quotation")
    ELSE parse_args(s.toks, 1, FALSE)

---------------------------------------------------------------------------
(* Idle values of the programs a specification does not run *)

IdleParse    == cmdline = <<>> /\ parsed = NoResult
IdleImage    == original = [width |-> 0, height |-> 0]
                /\ image = [width |-> 0, height |-> 0] /\ size = 0 /\ ipc = "idle"
                /\ crop_box = <<0, 0, 0, 0>>
IdleDispatch == request = [token |-> <<>>, text |-> <<>>, response_url |-> <<>>]
                /\ dpc = "idle" /\ published = <<>> /\ publish_calls = 0
                /\ response = ""
IdleWorker   == directory = {} /\ workitem = <<>> /\ wpc = <<>> /\ session = <<>>
                /\ requests_made = <<>> /\ posts = <<>> /\ outcome = <<>>

---------------------------------------------------------------------------
(* parse_command_line as a program: one call on one text *)

InitParse ==
    /\ mode = "parse"
    /\ cmdline \in Texts(MaxLen)
    /\ parsed = NoResult
    /\ IdleImage /\ IdleDispatch /\ IdleWorker

ParseCommandLine ==
    /\ mode = "parse"
    /\ parsed = NoResult
    /\ parsed' = parse_command_line(cmdline)
    /\ UNCHANGED <<mode, cmdline, image_vars, dispatch_vars, worker_vars>>

SpecParse == InitParse /\ [][ParseCommandLine]_vars

---------------------------------------------------------------------------
(* square_crop_and_resize *)

Max(a, b) == IF a > b THEN a ELSE b
Min(a, b) == IF a < b THEN a ELSE b

\* wand.image.Image.crop(left, top, right, bottom): right and bottom are the
\* second offsets, not included in the region: the result is (right - left)
\* by (bottom - top).  An offset beyond the image or an empty region raises
\* ValueError; a negative offset counts from the far edge.
wand_abs(n, m) == IF n < 0 THEN m + n ELSE n

wand_crop(img, left, top, right, bottom) ==
    IF left > img.width \/ right > img.width \/ top > img.height \/ bottom > img.height
    THEN [raised |-> TRUE, width |-> img.width, height |-> img.height]
    ELSE LET l == wand_abs(left, img.width)
             t == wand_abs(top, img.height)
             r == wand_abs(right, img.width)
             b == wand_abs(bottom, img.height)
         IN  IF r - l < 1 \/ b - t < 1
             THEN [raised |-> TRUE, width |-> img.width, height |-> img.height]
             ELSE [raised |-> FALSE, width |-> r - l, height |-> b - t]

extra_of(img) == Max(img.width, img.height) - Min(img.width, img.height)
rem_lt_of(img) == extra_of(img) \div 2
rem_rb_of(img) == rem_lt_of(img) + (extra_of(img) % 2)

\* The (left, top, right, bottom) that square_crop_and_resize passes to crop.
CropArgs(img) ==
    IF img.width > img.height
    THEN <<rem_lt_of(img), 0, img.width - rem_rb_of(img) - 1, img.height - 1>>
    ELSE <<0, rem_lt_of(img), img.width - 1, img.height - rem_rb_of(img) - 1>>

\* The image after the crop and the assert, or the exception raised.
square_crop(img) ==
    LET a == CropArgs(img)
        c == wand_crop(img, a[1], a[2], a[3], a[4])
    IN  IF c.raised THEN [raised |-> "ValueError", width |-> img.width, height |-> img.height]
        ELSE IF c.width # c.height
        THEN [raised |-> "AssertionError", width |-> c.width, height |-> c.height]
        ELSE [raised |-> "", width |-> c.width, height |-> c.height]

InitImage ==
    /\ mode = "image"
    /\ original \in [width : 1..MaxDim, height : 1..MaxDim]
    /\ image = original
    /\ size \in 1..MaxSize
    /\ ipc = "start"
    /\ crop_box = <<0, 0, 0, 0>>
    /\ IdleParse /\ IdleDispatch /\ IdleWorker

ImageCrop ==
    /\ mode = "image" /\ ipc = "start"
    /\ crop_box' = CropArgs(image)
    /\ LET c == square_crop(image) IN
         IF c.raised # ""
         THEN ipc' = c.raised /\ image' = image
         ELSE ipc' = "cropped" /\ image' = [width |-> c.width, height |-> c.height]
    /\ UNCHANGED <<mode, original, size, parse_vars, dispatch_vars, worker_vars>>

ImageResize ==
    /\ mode = "image" /\ ipc = "cropped"
    /\ image' = [width |-> size, height |-> size]
    /\ ipc' = "resized"
    /\ UNCHANGED <<mode, original, size, crop_box, parse_vars, dispatch_vars, worker_vars>>

NextImage == ImageCrop \/ ImageResize

SpecImage == InitImage /\ [][NextImage]_vars

---------------------------------------------------------------------------
(* dispatch: the Stage-1 handler *)

\* The configured EMOJIFY_SLACK_TOKEN.
SlackToken == <<"secret">>

\* A form field of the body is the list of its raw values (none: the field is
\* not in the body); a value is a text, the blank value the empty text.  urllib.parse.parse_qs drops blank values, and a field
\* with no value left is not a key of the result.
Blank(v) == v = <<>>

RECURSIVE NonBlank(_)
NonBlank(vals) ==
    IF vals = <<>> THEN <<>>
    ELSE IF Blank(Head(vals)) THEN NonBlank(Tail(vals))
    ELSE <<Head(vals)>> \o NonBlank(Tail(vals))

\* Mutant of parse_qs: keep_blank_values, a blank field stays a key.
parse_qs_KeepBlank(body) == body

parse_qs(body) ==
    [token        |-> NonBlank(body.token),
     text         |-> NonBlank(body.text),
     response_url |-> NonBlank(body.response_url)]

HasKey(field) == field # <<>>

\* Mutant of TokenCheck: the comparison with the configured token is lost.
TokenCheck_NoCompare(params) ==
    IF ~HasKey(params.token) THEN "KeyError" ELSE ""

\* if params['token'][0] != os.environ['EMOJIFY_SLACK_TOKEN']: which exception
\* the token check raises, "" when it passes.
TokenCheck(params) ==
    IF ~HasKey(params.token) THEN "KeyError"
    ELSE IF params.token[1] # SlackToken THEN "Error validating slack token..."
    ELSE ""

\* if 'text' not in params or not params['text']
TextMissing(params) == ~HasKey(params.text) \/ Len(params.text) = 0

\* generate_response(message): always status 200 with the message as text.
generate_response(message) == [statusCode |-> "200", text |-> message]

\* Mutant of AfterPublish: an exception of sns.publish is swallowed.
AfterPublish_Swallow(ok) == "Processing command"

\* What dispatch returns once sns.publish has returned or raised.
AfterPublish(ok) ==
    IF ok THEN "Processing command" ELSE "ClientError"

Bodies ==
    [token        : {<<>>, <<<<>>>>, <<<<"wrong">>>>, <<SlackToken>>},
     text         : {<<>>} \cup {<<t>> : t \in Texts(MaxCmdLen)},
     response_url : {<<>>, <<<<"url">>>>}]

InitDispatch ==
    /\ mode = "dispatch"
    /\ request \in Bodies
    /\ dpc = "token"
    /\ published = <<>>
    /\ publish_calls = 0
    /\ response = ""
    /\ IdleParse /\ IdleImage /\ IdleWorker

Return(message) ==
    /\ response' = generate_response(message)
    /\ dpc' = "returned"

\* Lines 220-222.
DispatchToken ==
    /\ mode = "dispatch" /\ dpc = "token"
    /\ LET e == TokenCheck(parse_qs(request)) IN
         IF e # "" THEN Return(e) ELSE dpc' = "text" /\ UNCHANGED response
    /\ UNCHANGED <<mode, request, published, publish_calls, parse_vars, image_vars, worker_vars>>

\* Lines 224-229.
DispatchText ==
    /\ mode = "dispatch" /\ dpc = "text"
    /\ IF TextMissing(parse_qs(request))
       THEN Return("Usage")
       ELSE dpc' = "parse" /\ UNCHANGED response
    /\ UNCHANGED <<mode, request, published, publish_calls, parse_vars, image_vars, worker_vars>>

\* Line 234.  SystemExit is not an Exception: it leaves dispatch uncaught and
\* no response is generated.
DispatchParse ==
    /\ mode = "dispatch" /\ dpc = "parse"
    /\ LET r == parse_command_line(parse_qs(request).text[1]) IN
         CASE r.kind = "raise" -> Return(r.msg)
           [] r.kind = "exit"  -> dpc' = "exited" /\ UNCHANGED response
           [] OTHER            -> dpc' = "publish" /\ UNCHANGED response
    /\ UNCHANGED <<mode, request, published, publish_calls, parse_vars, image_vars, worker_vars>>

\* Lines 237-245: building the message reads params['response_url'][0] and
\* the topic from the environment before the publish call is made.
DispatchPublish ==
    /\ mode = "dispatch" /\ dpc = "publish"
    /\ LET params == parse_qs(request) IN
         IF ~HasKey(params.response_url)
         THEN Return("KeyError") /\ UNCHANGED <<published, publish_calls>>
         ELSE \E env_ok \in BOOLEAN, ok \in BOOLEAN :
                IF ~env_ok
                THEN Return("KeyError") /\ UNCHANGED <<published, publish_calls>>
                ELSE /\ publish_calls' = publish_calls + 1
                     /\ published' = IF ok
                                     THEN Append(published,
                                                 [response_url |-> params.response_url[1],
                                                  command |-> params.text[1]])
                                     ELSE published
                     /\ IF AfterPublish(ok) = "Processing command"
                        THEN dpc' = "ack" /\ UNCHANGED response
                        ELSE Return(AfterPublish(ok))
    /\ UNCHANGED <<mode, request, parse_vars, image_vars, worker_vars>>

\* Lines 246-248.
DispatchAck ==
    /\ mode = "dispatch" /\ dpc = "ack"
    /\ Return("Processing command")
    /\ UNCHANGED <<mode, request, published, publish_calls, parse_vars, image_vars, worker_vars>>

NextDispatch ==
    DispatchToken \/ DispatchText \/ DispatchParse \/ DispatchPublish \/ DispatchAck

SpecDispatch == InitDispatch /\ [][NextDispatch]_vars

---------------------------------------------------------------------------
(* emojify: the Stage-2 handler, and the directory operations it runs *)

\* The deliveries of one WorkItem: each starts its own invocation.
Invocations == {"i1", "i2"}

Foo == <<"foo">>
Bar == <<"bar">>
EmojiNames == {Foo, Bar}

\* The command texts a delivered message may carry.
WorkItemCommands ==
    { <<"create", SP, "foo", SP, "bar">>,
      <<"delete", SP, "foo">>,
      <<"alias", SP, "bar", SP, "foo">>,
      <<"add", SP, "foo", SP, "bar">>,
      <<"delete", SP, QT, "foo">>,
      <<SP>>,
      <<"-h">> }

\* The images urlopen + wand.image.Image may yield.
FetchedImages == [width : 1..MaxDim, height : 1..MaxDim]

\* ':{}:'.format(name) in response_text: the snapshot is the set of names
\* whose marker the page fetched at login contains.
Exists(snapshot, name) == name \in snapshot

\* Mutant of Precondition: alias_emoji does not check that the target exists.
Precondition_NoTargetCheck(args, snapshot) ==
    CASE args.func = "create" ->
           IF Exists(snapshot, args.name) THEN "already exists" ELSE ""
      [] args.func = "delete" ->
           IF ~Exists(snapshot, args.name) THEN "does not exist" ELSE ""
      [] args.func = "alias" ->
           IF Exists(snapshot, args.name) THEN "already exists" ELSE ""
      [] OTHER -> ""

\* The existence checks of upload_emoji, delete_emoji and alias_emoji, in the
\* order the code makes them: the message of the exception raised, "" if none.
Precondition(args, snapshot) ==
    CASE args.func = "create" ->
           IF Exists(snapshot, args.name) THEN "already exists" ELSE ""
      [] args.func = "delete" ->
           IF ~Exists(snapshot, args.name) THEN "does not exist" ELSE ""
      [] args.func = "alias" ->
           IF Exists(snapshot, args.name) THEN "already exists"
           ELSE IF ~Exists(snapshot, args.arg) THEN "does not exist"
           ELSE ""
      [] OTHER -> ""

\* The mutating request each operation sends, and what the platform does
\* with it when it accepts it.
MutatingRequest(args) ==
    CASE args.func = "create" -> "POST /customize/emoji add"
      [] args.func = "delete" -> "POST /api/emoji.remove"
      [] OTHER                -> "POST /customize/emoji alias"

Applied(dir, args) ==
    IF args.func = "delete" THEN dir \ {args.name} ELSE dir \cup {args.name}

\* handle_create / handle_delete / handle_alias: the message returned.
SuccessMessage(args) ==
    CASE args.func = "create" -> "Created emoji"
      [] args.func = "delete" -> "Deleted emoji"
      [] OTHER                -> "Aliased emoji"

Args == parse_command_line(workitem)

InitWorker ==
    /\ mode = "worker"
    /\ directory \in SUBSET EmojiNames
    /\ workitem \in WorkItemCommands
    /\ wpc = [i \in Invocations |-> "start"]
    /\ session = [i \in Invocations |-> {}]
    /\ requests_made = [i \in Invocations |-> <<>>]
    /\ posts = [i \in Invocations |-> <<>>]
    /\ outcome = [i \in Invocations |-> ""]
    /\ IdleParse /\ IdleImage /\ IdleDispatch

At(i, pc) == mode = "worker" /\ wpc[i] = pc

Goto(i, pc) == wpc' = [wpc EXCEPT ![i] = pc]

\* An exception raised inside the try block once response_url is bound.
Raise(i, message) ==
    /\ wpc' = [wpc EXCEPT ![i] = "except"]
    /\ outcome' = [outcome EXCEPT ![i] = message]

Sent(i, req, ok) ==
    requests_made' = [requests_made EXCEPT ![i] = Append(@, [req |-> req, ok |-> ok])]

Posted(i, type) ==
    posts' = [posts EXCEPT ![i] = Append(@, [text |-> outcome[i], response_type |-> type])]

\* Lines 179-181.  A KeyError here reaches the handler before response_url is
\* assigned: the handler's requests.post(response_url, ...) raises
\* UnboundLocalError and emojify ends without a POST.
WorkerConfig(i) ==
    /\ At(i, "start")
    /\ \E ok \in BOOLEAN :
         IF ok THEN Goto(i, "decode") /\ UNCHANGED outcome
         ELSE Goto(i, "crashed") /\ outcome' = [outcome EXCEPT ![i] = "UnboundLocalError"]
    /\ UNCHANGED <<mode, directory, workitem, session, requests_made, posts,
                   parse_vars, image_vars, dispatch_vars>>

\* Lines 184-185: json.loads and the key lookups; response_url is bound last.
WorkerDecode(i) ==
    /\ At(i, "decode")
    /\ \E ok \in BOOLEAN :
         IF ok THEN Goto(i, "parse") /\ UNCHANGED outcome
         ELSE Goto(i, "crashed") /\ outcome' = [outcome EXCEPT ![i] = "UnboundLocalError"]
    /\ UNCHANGED <<mode, directory, workitem, session, requests_made, posts,
                   parse_vars, image_vars, dispatch_vars>>

\* Lines 188-191, up to the call of args.func.  SystemExit is not caught by
\* "except Exception"; a Namespace without func raises AttributeError.
WorkerParse(i) ==
    /\ At(i, "parse")
    /\ CASE Args.kind = "raise" -> Raise(i, Args.msg)
         [] Args.kind = "exit"  -> Goto(i, "exited") /\ UNCHANGED outcome
         [] Args.func = ""      -> Raise(i, "AttributeError")
         [] Args.func = "create" -> Goto(i, "fetch") /\ UNCHANGED outcome
         [] OTHER               -> Goto(i, "get") /\ UNCHANGED outcome
    /\ UNCHANGED <<mode, directory, workitem, session, requests_made, posts,
                   parse_vars, image_vars, dispatch_vars>>

\* handle_create, lines 141-143.
WorkerFetch(i) ==
    /\ At(i, "fetch")
    /\ \E ok \in BOOLEAN, img \in FetchedImages :
         IF ~ok THEN Raise(i, "URLError")
         ELSE IF square_crop(img).raised # "" THEN Raise(i, square_crop(img).raised)
         ELSE Goto(i, "get") /\ UNCHANGED outcome
    /\ UNCHANGED <<mode, directory, workitem, session, requests_made, posts,
                   parse_vars, image_vars, dispatch_vars>>

\* emoji_session, lines 61-64.
WorkerLoginGet(i) ==
    /\ At(i, "get")
    /\ \E ok \in BOOLEAN :
         /\ Sent(i, "GET login", ok)
         /\ IF ok THEN Goto(i, "login") /\ UNCHANGED outcome
            ELSE Raise(i, "HTTPError")
    /\ UNCHANGED <<mode, directory, workitem, session, posts,
                   parse_vars, image_vars, dispatch_vars>>

\* emoji_session, lines 67-78: the page returned by the login is the snapshot.
WorkerLoginPost(i) ==
    /\ At(i, "login")
    /\ \E ok \in BOOLEAN :
         /\ Sent(i, "POST login", ok)
         /\ IF ok
            THEN /\ session' = [session EXCEPT ![i] = directory]
                 /\ Goto(i, "check") /\ UNCHANGED outcome
            ELSE Raise(i, "HTTPError") /\ UNCHANGED session
    /\ UNCHANGED <<mode, directory, workitem, posts, parse_vars, image_vars, dispatch_vars>>

\* Lines 86-87, 107-108, 125-128.
WorkerCheck(i) ==
    /\ At(i, "check")
    /\ IF Precondition(Args, session[i]) # ""
       THEN Raise(i, Precondition(Args, session[i]))
       ELSE Goto(i, "mutate") /\ UNCHANGED outcome
    /\ UNCHANGED <<mode, directory, workitem, session, requests_made, posts,
                   parse_vars, image_vars, dispatch_vars>>

\* Lines 90-100, 110-118, 130-137, and the return of the handle_ function.
\* delete_emoji first scrapes version_uid and api_token from the page: a page
\* without them raises AttributeError before any request.
WorkerMutate(i) ==
    /\ At(i, "mutate")
    /\ \E scraped \in BOOLEAN, ok \in BOOLEAN :
         IF Args.func = "delete" /\ ~scraped
         THEN Raise(i, "AttributeError") /\ UNCHANGED <<requests_made, directory>>
         ELSE /\ Sent(i, MutatingRequest(Args), ok)
              /\ IF ok
                 THEN /\ directory' = Applied(directory, Args)
                      /\ Goto(i, "reply")
                      /\ outcome' = [outcome EXCEPT ![i] = SuccessMessage(Args)]
                 ELSE Raise(i, "HTTPError") /\ UNCHANGED directory
    /\ UNCHANGED <<mode, workitem, session, posts, parse_vars, image_vars, dispatch_vars>>

\* Lines 193-195.  requests.post may raise: the handler then posts again.
WorkerReply(i) ==
    /\ At(i, "reply")
    /\ Posted(i, "in_channel")
    /\ \E ok \in BOOLEAN :
         IF ok THEN Goto(i, "done") /\ UNCHANGED outcome
         ELSE Raise(i, "ConnectionError")
    /\ UNCHANGED <<mode, directory, workitem, session, requests_made,
                   parse_vars, image_vars, dispatch_vars>>

\* Lines 197-199.
WorkerExcept(i) ==
    /\ At(i, "except")
    /\ Posted(i, "")
    /\ \E ok \in BOOLEAN : Goto(i, IF ok THEN "done" ELSE "crashed")
    /\ UNCHANGED <<mode, directory, workitem, session, requests_made, outcome,
                   parse_vars, image_vars, dispatch_vars>>

NextWorker ==
    \E i \in Invocations :
        \/ WorkerConfig(i) \/ WorkerDecode(i) \/ WorkerParse(i) \/ WorkerFetch(i)
        \/ WorkerLoginGet(i) \/ WorkerLoginPost(i) \/ WorkerCheck(i)
        \/ WorkerMutate(i) \/ WorkerReply(i) \/ WorkerExcept(i)

SpecWorker == InitWorker /\ [][NextWorker]_vars

---------------------------------------------------------------------------
(* Properties *)

Finished(i) == wpc[i] \in {"done", "crashed", "exited"}

\* C1: every invocation of emojify that has ended made exactly one POST to
\* the callback URL: with response_type in_channel and the success message
\* when every step succeeded, with the failure's message text otherwise.
C1_ExactlyOnePost ==
    mode = "worker" =>
        \A i \in Invocations :
            Finished(i) =>
                /\ Len(posts[i]) = 1
                /\ posts[i][1].text = outcome[i]
                /\ posts[i][1].response_type = "in_channel"
                       <=> outcome[i] \in {"Created emoji", "Deleted emoji", "Aliased emoji"}

ValidCommand(text) ==
    /\ parse_command_line(text).kind = "args"
    /\ parse_command_line(text).func \in Subcommands

\* C3: dispatch publishes only texts that parse as a valid command.
C3_PublishOnlyValid ==
    mode = "dispatch" =>
        \A k \in 1..Len(published) : ValidCommand(published[k].command)

AppliedBy(i) ==
    \E k \in 1..Len(requests_made[i]) :
        /\ requests_made[i][k].req \notin {"GET login", "POST login"}
        /\ requests_made[i][k].ok

\* C4: of the invocations handling the same WorkItem, at most one issues a
\* mutating request that the platform accepts.
C4_AppliedAtMostOnce ==
    mode = "worker" => Cardinality({i \in Invocations : AppliedBy(i)}) <= 1

\* C5: parse_command_line returns a command or raises an exception; it
\* never terminates the process and never writes to the console.
C5_ParserNeverExits ==
    mode = "parse" => parsed.kind \in {"none", "args", "raise"}

\* The command the stated grammar assigns to a token sequence; kind "raise"
\* (a ParseError) for every sequence outside the grammar.
GrammarCommand(toks) ==
    IF Len(toks) = 3 /\ toks[1] \in {<<"create">>, <<"add">>}
    THEN Namespace("create", toks[2], toks[3])
    ELSE IF Len(toks) = 2 /\ toks[1] \in {<<"delete">>, <<"remove">>}
    THEN Namespace("delete", toks[2], <<>>)
    ELSE IF Len(toks) = 3 /\ toks[1] = <<"alias">>
    THEN Namespace("alias", toks[2], toks[3])
    ELSE Raised("ParseError", "")

\* C6: the parser accepts exactly create/add <name> <url>, delete/remove
\* <name> and alias <name> <target> over shell-quoted tokens, and yields a
\* ParseError for every other token sequence.
C6_Grammar ==
    (mode = "parse" /\ parsed # NoResult) =>
        LET s == shlex_split(cmdline)
            want == IF s.ok THEN GrammarCommand(s.toks) ELSE Raised("ParseError", "")
        IN  /\ parsed.kind = want.kind
            /\ want.kind = "args" => parsed = want

LoggedIn(i) ==
    /\ Len(requests_made[i]) >= 2
    /\ requests_made[i][2].ok

\* The precondition failure of the operation against the snapshot, as the
\* directory client's contract states it.
ContractFailure(args, snapshot) ==
    IF args.func = "create" /\ args.name \in snapshot THEN "already exists"
    ELSE IF args.func = "delete" /\ args.name \notin snapshot THEN "does not exist"
    ELSE IF args.func = "alias" /\ args.name \in snapshot THEN "already exists"
    ELSE IF args.func = "alias" /\ args.arg \notin snapshot THEN "does not exist"
    ELSE ""

\* C7: an operation whose precondition fails against the snapshot raises the
\* matching error and sends nothing to the platform but the two
\* authentication requests.
C7_PreconditionFailureNoSideEffect ==
    mode = "worker" =>
        \A i \in Invocations :
            (LoggedIn(i) /\ ContractFailure(Args, session[i]) # "") =>
                /\ requests_made[i] = << [req |-> "GET login", ok |-> TRUE],
                                         [req |-> "POST login", ok |-> TRUE] >>
                /\ wpc[i] \in {"check", "except", "done", "crashed"}
                /\ wpc[i] # "check" => outcome[i] = ContractFailure(Args, session[i])

C7_Witness ==
    /\ mode = "worker"
    /\ \E i \in Invocations :
         /\ LoggedIn(i) /\ wpc[i] = "done"
         /\ Args.func = "alias"
         /\ outcome[i] = "does not exist"
         /\ Len(posts[i]) = 1

\* C8: a request with the right token and an absent or empty text field is
\* answered with the usage message and nothing is published.
C8_EmptyTextUsage ==
    (mode = "dispatch" /\ request.token = <<SlackToken>>
        /\ request.text \in {<<>>, << <<>> >>}) =>
        /\ published = <<>> /\ publish_calls = 0
        /\ dpc \in {"token", "text", "returned"}
        /\ dpc = "returned" => response = [statusCode |-> "200", text |-> "Usage"]

C8_Witness ==
    /\ mode = "dispatch" /\ dpc = "returned"
    /\ request.token = <<SlackToken>>
    /\ request.text = << <<>> >>
    /\ response.text = "Usage"

\* C9: for every image and size the crop leaves a square of side
\* min(width, height) (so an image already square is not cropped), no step
\* raises, and the result is size by size.
C9_CropSquareOfMinSide ==
    mode = "image" =>
        /\ ipc \in {"start", "cropped", "resized"}
        /\ ipc = "cropped" =>
               /\ image.width = Min(original.width, original.height)
               /\ image.height = Min(original.width, original.height)
        /\ ipc = "resized" => image = [width |-> size, height |-> size]

\* C10: dispatch returns the acknowledgement exactly when one message was
\* published; it publishes at most once, only after the token check and the
\* validation parse passed, and never returns anything but the
\* acknowledgement after a publish succeeded.
C10_AckIffPublished ==
    mode = "dispatch" =>
        /\ Len(published) <= 1 /\ publish_calls <= 1
        /\ publish_calls > 0 =>
               /\ request.token = <<SlackToken>>
               /\ parse_command_line(request.text[1]).kind = "args"
               /\ dpc \in {"ack", "returned"}
        /\ Len(published) = 1 => publish_calls = 1
        /\ dpc = "returned" =>
               (response.text = "Processing command" <=> Len(published) = 1)

C10_Witness ==
    /\ mode = "dispatch" /\ dpc = "returned"
    /\ Len(published) = 1
    /\ published[1].command = <<"delete", SP, "foo">>
    /\ response.text = "Processing command"

====
